---- MODULE Spec2Model ----
(***************************************************************************)
(* Greenhouse simulator: the per-plant tick transition (models.Plant) and  *)
(* the clock goroutine of engine.simulator with its Pause / Resume / Stop  *)
(* handoffs over unbuffered channels and its sync.RWMutex.                 *)
(*                                                                         *)
(* float64 quantities are fixed-point integers in units of 1/SCALE.        *)
(***************************************************************************)
EXTENDS Integers, Sequences, FiniteSets, TLC

\* ------------------------------------------------------------- bounds
NumThreads == 2
MaxPlants == 2
MaxTick == 2
MaxCalls == 3

\* -------------------------------------------------------- arithmetic
\* One unit of a float64 field: 1.0 is SCALE.
SCALE == 1000

Min(a, b) == IF a < b THEN a ELSE b
Max(a, b) == IF a > b THEN a ELSE b
Abs(a) == IF a < 0 THEN 0 - a ELSE a

\* const GROWTH_SLOW_FACTOR = 1.35, GROWTH_OPTIMAL_FACTOR = 1.25
GROWTH_SLOW_FACTOR == 1350
GROWTH_OPTIMAL_FACTOR == 1250
\* The literals of updateGrowthStage.
HEALTH_FLOOR == 300
HEALTH_SLOW == 500
OPTIMAL_BAND == 150

\* ------------------------------------------------------------- plants
PlantType(name, opt, min, max, base, depl, degr, enh) ==
    [Name |-> name, OptimalSaturation |-> opt, MinSaturation |-> min,
     MaxSaturation |-> max, BaseGrowthRate |-> base,
     SaturationDepletion |-> depl, HealthDegradationRate |-> degr,
     HealthEnhancementRate |-> enh]

OutOfUnit(x) == x < 0 \/ x > SCALE

\* NewPlant's validation without the check of the maximum saturation.
NewPlantError_NoMaxSaturationCheck(id, plantType, sectionID, initialSaturation) ==
    IF id = "" THEN "id cannot be empty"
    ELSE IF sectionID = "" THEN "sectionID cannot be empty"
    ELSE IF OutOfUnit(initialSaturation)
        THEN "initial saturation must be between 0.0 and 1.0"
    ELSE IF plantType.Name = "" THEN "plant type must have a name"
    ELSE IF OutOfUnit(plantType.OptimalSaturation)
        THEN "plant type optimal saturation must be between 0.0 and 1.0"
    ELSE IF OutOfUnit(plantType.MinSaturation)
        THEN "plant type min saturation must be between 0.0 and 1.0"
    ELSE IF OutOfUnit(plantType.BaseGrowthRate)
        THEN "plant type base growth rate must be between 0.0 and 1.0"
    ELSE IF OutOfUnit(plantType.SaturationDepletion)
        THEN "plant type saturation depletion rate must be between 0.0 and 1.0"
    ELSE IF OutOfUnit(plantType.HealthDegradationRate)
        THEN "plant type health degradation rate must be between 0.0 and 1.0"
    ELSE IF OutOfUnit(plantType.HealthEnhancementRate)
        THEN "plant type health enhancement rate must be between 0.0 and 1.0"
    ELSE ""

\* NewPlant's validation: the error it returns, "" when it returns a plant.
NewPlantError(id, plantType, sectionID, initialSaturation) ==
    IF id = "" THEN "id cannot be empty"
    ELSE IF sectionID = "" THEN "sectionID cannot be empty"
    ELSE IF OutOfUnit(initialSaturation)
        THEN "initial saturation must be between 0.0 and 1.0"
    ELSE IF plantType.Name = "" THEN "plant type must have a name"
    ELSE IF OutOfUnit(plantType.OptimalSaturation)
        THEN "plant type optimal saturation must be between 0.0 and 1.0"
    ELSE IF OutOfUnit(plantType.MinSaturation)
        THEN "plant type min saturation must be between 0.0 and 1.0"
    ELSE IF OutOfUnit(plantType.MaxSaturation)
        THEN "plant type max saturation must be between 0.0 and 1.0"
    ELSE IF OutOfUnit(plantType.BaseGrowthRate)
        THEN "plant type base growth rate must be between 0.0 and 1.0"
    ELSE IF OutOfUnit(plantType.SaturationDepletion)
        THEN "plant type saturation depletion rate must be between 0.0 and 1.0"
    ELSE IF OutOfUnit(plantType.HealthDegradationRate)
        THEN "plant type health degradation rate must be between 0.0 and 1.0"
    ELSE IF OutOfUnit(plantType.HealthEnhancementRate)
        THEN "plant type health enhancement rate must be between 0.0 and 1.0"
    ELSE ""

\* The plant NewPlant builds when its validation passes.
NewPlant(id, plantType, sectionID, initialSaturation, now) ==
    [ID |-> id, Type |-> plantType, SectionID |-> sectionID,
     SoilSaturation |-> initialSaturation, Health |-> SCALE,
     GrowthStage |-> 0, Alive |-> TRUE, CreatedAt |-> now]

\* outOfOptimalSaturationRange without the comparison with MinSaturation.
outOfOptimalSaturationRange_UpperOnly(p) ==
    p.SoilSaturation > p.Type.MaxSaturation

outOfOptimalSaturationRange(p) ==
    (p.SoilSaturation < p.Type.MinSaturation)
        \/ (p.SoilSaturation > p.Type.MaxSaturation)

\* degradeHealth without its math.Max clamp.
degradeHealth_Unclamped(p) ==
    [p EXCEPT !.Health = p.Health - p.Type.HealthDegradationRate]

degradeHealth(p) ==
    [p EXCEPT !.Health = Max(p.Health - p.Type.HealthDegradationRate, 0)]

\* enhanceHealth without its math.Min clamp.
enhanceHealth_Unclamped(p) ==
    [p EXCEPT !.Health = p.Health + p.Type.HealthEnhancementRate]

enhanceHealth(p) ==
    [p EXCEPT !.Health = Min(p.Health + p.Type.HealthEnhancementRate, SCALE)]

\* growthRate without the slow-growth divisor.
growthRate_NoSlowdown(p) ==
    IF Abs(p.SoilSaturation - p.Type.OptimalSaturation) < OPTIMAL_BAND
    THEN (p.Type.BaseGrowthRate * GROWTH_OPTIMAL_FACTOR) \div SCALE
    ELSE p.Type.BaseGrowthRate

\* growthRate with the near-optimal band closed at 0.15.
growthRate_BandInclusive(p) ==
    LET base == p.Type.BaseGrowthRate
        slowed == IF p.Health < HEALTH_SLOW
                  THEN (base * SCALE) \div GROWTH_SLOW_FACTOR ELSE base
    IN  IF Abs(p.SoilSaturation - p.Type.OptimalSaturation) <= OPTIMAL_BAND
        THEN (slowed * GROWTH_OPTIMAL_FACTOR) \div SCALE ELSE slowed

\* growthRate after the slow-growth divisor and the near-optimal multiplier,
\* in that order.
growthRate(p) ==
    LET base == p.Type.BaseGrowthRate
        slowed == IF p.Health < HEALTH_SLOW
                  THEN (base * SCALE) \div GROWTH_SLOW_FACTOR ELSE base
    IN  IF Abs(p.SoilSaturation - p.Type.OptimalSaturation) < OPTIMAL_BAND
        THEN (slowed * GROWTH_OPTIMAL_FACTOR) \div SCALE ELSE slowed

\* updateGrowthStage without its "Cap at 1.0".
updateGrowthStage_Uncapped(p) ==
    IF p.Health < HEALTH_FLOOR THEN p
    ELSE [p EXCEPT !.GrowthStage = p.GrowthStage + growthRate(p)]

updateGrowthStage(p) ==
    IF p.Health < HEALTH_FLOOR THEN p
    ELSE [p EXCEPT !.GrowthStage = Min(p.GrowthStage + growthRate(p), SCALE)]

\* updateSoilSaturation without its math.Max clamp.
updateSoilSaturation_Unclamped(p) ==
    [p EXCEPT !.SoilSaturation = p.SoilSaturation - p.Type.SaturationDepletion]

updateSoilSaturation(p) ==
    [p EXCEPT !.SoilSaturation =
        Max(p.SoilSaturation - p.Type.SaturationDepletion, 0)]

\* The health update of OnTick (its first if/else).
updateHealth(p) ==
    IF outOfOptimalSaturationRange(p) THEN degradeHealth(p) ELSE enhanceHealth(p)

\* OnTick without its "if !p.Alive { return }".
OnTick_NoDeadCheck(p) ==
    LET h == updateHealth(p)
    IN  IF h.Health <= 0 THEN [h EXCEPT !.Alive = FALSE]
        ELSE updateSoilSaturation(updateGrowthStage(h))

\* OnTick without the return after "p.Alive = false".
OnTick_NoShortCircuit(p) ==
    IF ~p.Alive THEN p
    ELSE LET h == updateHealth(p)
             d == IF h.Health <= 0 THEN [h EXCEPT !.Alive = FALSE] ELSE h
         IN  updateSoilSaturation(updateGrowthStage(d))

\* OnTick with the saturation depleted first.
OnTick_DepletesFirst(p) ==
    IF ~p.Alive THEN p
    ELSE LET d == updateSoilSaturation(p)
             h == updateHealth(d)
         IN  IF h.Health <= 0 THEN [h EXCEPT !.Alive = FALSE]
             ELSE updateGrowthStage(h)

\* OnTick with the health floor of updateGrowthStage tested on the health
\* the plant had before this tick's health update.
OnTick_FloorOnPreTickHealth(p) ==
    IF ~p.Alive THEN p
    ELSE LET h == updateHealth(p)
         IN  IF h.Health <= 0 THEN [h EXCEPT !.Alive = FALSE]
             ELSE IF p.Health < HEALTH_FLOOR THEN updateSoilSaturation(h)
             ELSE updateSoilSaturation(
                      [h EXCEPT !.GrowthStage = Min(h.GrowthStage + growthRate(h), SCALE)])

OnTick(p) ==
    IF ~p.Alive THEN p
    ELSE LET h == updateHealth(p)
         IN  IF h.Health <= 0 THEN [h EXCEPT !.Alive = FALSE]
             ELSE updateSoilSaturation(updateGrowthStage(h))

\* The zero value Plant{}.
ZeroType == PlantType("", 0, 0, 0, 0, 0, 0, 0)
ZeroPlant ==
    [ID |-> "", Type |-> ZeroType, SectionID |-> "", SoilSaturation |-> 0,
     Health |-> 0, GrowthStage |-> 0, Alive |-> FALSE, CreatedAt |-> 0]

\* --------------------------------------------------- simulator state
VARIABLES
    clock,          \* where the goroutine running Start is
    tickIdx,        \* the index of the range loop over s.plants
    currentTick,    \* s.currentTick
    isPaused,       \* s.isPaused
    plants,         \* s.plants
    mu,             \* s.mu: the goroutines holding it for reading
    pc,             \* where each calling goroutine is
    pauseReturned,  \* a Pause took its handoff or its "already paused" return,
                    \* and no Resume was called or handed off since
    initial,        \* plant_test.go: the Plant literal a test builds
    calls,          \* plant_test.go: the OnTick calls the test has made
    adding,         \* each goroutine's AddPlant call in progress: its argument,
                    \* the tick whose loop was running when it was issued (-1
                    \* if none) and whether it queued behind another writer
    added,          \* the arguments of the AddPlant calls that have returned,
                    \* in the order of their return
    loops,          \* how many plant loops the clock has completed
    ctor,           \* a NewPlant call: its arguments and what it returned
    sensorsByID,    \* sensorManager.sensorsByID
    sensorsBySection, \* sensorManager.sensorsBySection
    sret            \* the sensor manager call that returned last: its
                    \* argument, its results, and how many calls returned

\* The sensor manager's state and the record of its calls.
sensorState == <<sensorsByID, sensorsBySection, sret>>

vars == <<clock, tickIdx, currentTick, isPaused, plants, mu, pc, pauseReturned,
          initial, calls, adding, added, loops, ctor, sensorState>>

Threads == 1..NumThreads
ClockId == 0

\* A goroutine is inside s.mu.Lock(): it holds the RWMutex's writer mutex,
\* has announced itself to the readers and waits for them to leave. Until it
\* has unlocked, RLock() blocks and so does every other Lock().
WriterWaiting == \E t \in Threads : pc[t] = "AddPlantLock"

\* s.mu.Lock() succeeds only when nobody holds the mutex; the Lock()ed
\* sections of Pause, Resume and the clock's resume branch are single steps.
CanLock == mu = {} /\ ~WriterWaiting

\* No AddPlant call in progress.
NotAdding == [plant |-> ZeroPlant, tick |-> -1, queued |-> FALSE]

\* AddPlant(nil)
NilPlant == [ZeroPlant EXCEPT !.ID = "<nil>"]

\* The plants main.go's getTestPlants builds.
Tomato == PlantType("Tomato", 600, 300, 800, 50, 40, 80, 30)
Lettuce == PlantType("Lettuce", 700, 400, 900, 80, 50, 60, 40)
getTestPlants ==
    << NewPlant("tomato-1", Tomato, "section-A", 500, 0),
       NewPlant("tomato-2", Tomato, "section-A", 300, 0),
       NewPlant("lettuce-1", Lettuce, "section-B", 600, 0) >>

\* A nil *models.Sensor: what AddSensor(nil) is given and what a lookup of
\* an unregistered id in sensorsByID yields.
NilSensor == [ID |-> "<nil>", Type |-> "", SectionID |-> ""]

\* &models.Sensor{ID: ..., Type: ..., SectionID: ...}
Sensor(id, type, sectionID) == [ID |-> id, Type |-> type, SectionID |-> sectionID]

\* The ids and the sections the maps of the sensor manager are looked up by.
SensorKeys == {"sensor-1", "sensor-2", "nonexistent-sensor"}
SectionKeys == {"section-A", "section-B", "empty-section"}

\* What a sensor manager call returned: the error message ("" for nil),
\* and the SensorReading (SensorID "" and Value 0 for a nil reading); with
\* it the number of calls that have returned and the tick counter at the
\* return.
CallResult(op, arg, err, sensorID, value) ==
    [op |-> op, arg |-> arg, err |-> err, SensorID |-> sensorID, Value |-> value,
     n |-> 0, tick |-> 0]

NoCall == CallResult("", NilSensor, "", "", 0)

\* NewSensorManager
NoSensors ==
    /\ sensorsByID = [id \in SensorKeys |-> NilSensor]
    /\ sensorsBySection = [sec \in SectionKeys |-> <<>>]
    /\ sret = NoCall

\* No NewPlant call is being looked at.
NotCalled ==
    [id |-> "", plantType |-> ZeroType, sectionID |-> "", initialSaturation |-> 0,
     returned |-> FALSE, err |-> "", plant |-> NilPlant]

\* NewSimulator
Init ==
    /\ ctor = NotCalled
    /\ NoSensors
    /\ clock = "idle"
    /\ tickIdx = 0
    /\ currentTick = 0
    /\ isPaused = FALSE
    /\ plants = <<>>
    /\ mu = {}
    /\ pc = [t \in Threads |-> "idle"]
    /\ pauseReturned = FALSE
    /\ initial = ZeroPlant
    /\ calls = 0
    /\ adding = [t \in Threads |-> NotAdding]
    /\ added = <<>>
    /\ loops = 0

\* ------------------------------------------------- the clock goroutine
\* go sim.Start()
Start ==
    /\ clock = "idle"
    /\ clock' = "select"
    /\ UNCHANGED <<ctor, sensorState, initial, calls, adding, added, loops, tickIdx, currentTick, isPaused, plants, mu, pc, pauseReturned>>

\* case <-s.ticker.C: ... s.mu.RLock()
ClockTick ==
    /\ clock = "select"
    /\ currentTick < MaxTick
    /\ ~WriterWaiting
    /\ clock' = "tickLoop"
    /\ tickIdx' = 1
    /\ mu' = mu \cup {ClockId}
    /\ UNCHANGED <<ctor, sensorState, initial, calls, adding, added, loops, currentTick, isPaused, plants, pc, pauseReturned>>

\* An iteration that runs OnTick a second time on the same plant.
ClockOnTick_Twice ==
    /\ clock = "tickLoop"
    /\ tickIdx <= Len(plants)
    /\ plants[tickIdx] # NilPlant
    /\ plants' = [plants EXCEPT ![tickIdx] = OnTick(OnTick(@))]
    /\ tickIdx' = tickIdx + 1
    /\ UNCHANGED <<ctor, sensorState, initial, calls, adding, added, loops, clock, currentTick, isPaused, mu, pc, pauseReturned>>

\* one iteration of for _, plant := range s.plants { plant.OnTick() }
\* An iteration whose depletion reaches every plant of the same type, as
\* if the plants of a type shared their state.
ClockOnTick_SharedType ==
    /\ clock = "tickLoop"
    /\ tickIdx <= Len(plants)
    /\ plants[tickIdx] # NilPlant
    /\ plants' = [j \in 1..Len(plants) |->
                    IF j = tickIdx THEN OnTick(plants[j])
                    ELSE IF plants[j].Type = plants[tickIdx].Type
                         THEN updateSoilSaturation(plants[j])
                         ELSE plants[j]]
    /\ tickIdx' = tickIdx + 1
    /\ UNCHANGED <<ctor, sensorState, initial, calls, adding, added, loops, clock, currentTick, isPaused, mu, pc, pauseReturned>>

ClockOnTick ==
    /\ clock = "tickLoop"
    /\ tickIdx <= Len(plants)
    /\ plants[tickIdx] # NilPlant
    /\ plants' = [plants EXCEPT ![tickIdx] = OnTick(@)]
    /\ tickIdx' = tickIdx + 1
    /\ UNCHANGED <<ctor, sensorState, initial, calls, adding, added, loops, clock, currentTick, isPaused, mu, pc, pauseReturned>>

\* plant.OnTick() on a nil *Plant: "if !p.Alive" dereferences nil and the
\* goroutine panics, which ends the program and every goroutine with it.
ClockPanic ==
    /\ clock = "tickLoop"
    /\ tickIdx <= Len(plants)
    /\ plants[tickIdx] = NilPlant
    /\ clock' = "panicked"
    /\ pc' = [t \in Threads |-> "exited"]
    /\ UNCHANGED <<ctor, sensorState, initial, calls, adding, added, loops, tickIdx, currentTick, isPaused, plants, mu,
                   pauseReturned>>

\* s.mu.RUnlock() after the loop
ClockRUnlock ==
    /\ clock = "tickLoop"
    /\ tickIdx > Len(plants)
    /\ mu' = mu \ {ClockId}
    /\ clock' = "tickIncr"
    /\ tickIdx' = 0
    /\ loops' = loops + 1
    /\ UNCHANGED <<ctor, sensorState, initial, calls, adding, added, currentTick, isPaused, plants, pc, pauseReturned>>

\* The tick branch without its s.currentTick++.
ClockIncr_Skip ==
    /\ clock = "tickIncr"
    /\ clock' = "select"
    /\ UNCHANGED <<ctor, sensorState, initial, calls, adding, added, loops, tickIdx, currentTick, isPaused, plants, mu, pc,
                   pauseReturned>>

\* s.currentTick++
ClockIncr ==
    /\ clock = "tickIncr"
    /\ currentTick' = currentTick + 1
    /\ clock' = "select"
    /\ UNCHANGED <<ctor, sensorState, initial, calls, adding, added, loops, tickIdx, isPaused, plants, mu, pc, pauseReturned>>

\* A pause branch entered with the clock's read lock held.
ClockRecvPause_HoldsRLock(t) ==
    /\ clock = "select"
    /\ pc[t] = "PauseSend"
    /\ clock' = "waitResume"
    /\ mu' = mu \cup {ClockId}
    /\ pc' = [pc EXCEPT ![t] = "idle"]
    /\ pauseReturned' = TRUE
    /\ UNCHANGED <<ctor, sensorState, initial, calls, adding, added, loops, tickIdx, currentTick, isPaused, plants>>

\* case <-s.pause: the rendezvous with a Pause caller's send
ClockRecvPause(t) ==
    /\ clock = "select"
    /\ pc[t] = "PauseSend"
    /\ clock' = "waitResume"
    /\ pc' = [pc EXCEPT ![t] = "idle"]
    /\ pauseReturned' = TRUE
    /\ UNCHANGED <<ctor, sensorState, initial, calls, adding, added, loops, tickIdx, currentTick, isPaused, plants, mu>>

\* <-s.resume: the rendezvous with a Resume caller's send
ClockRecvResume(t) ==
    /\ clock = "waitResume"
    /\ pc[t] = "ResumeSend"
    /\ clock' = "resumeLock"
    /\ pc' = [pc EXCEPT ![t] = "idle"]
    /\ pauseReturned' = FALSE
    /\ UNCHANGED <<ctor, sensorState, initial, calls, adding, added, loops, tickIdx, currentTick, isPaused, plants, mu>>

\* The resume branch without its "s.isPaused = false".
ClockResumed_KeepsFlag ==
    /\ clock = "resumeLock"
    /\ CanLock
    /\ clock' = "select"
    /\ UNCHANGED <<ctor, sensorState, initial, calls, adding, added, loops, tickIdx, currentTick, isPaused, plants, mu, pc,
                   pauseReturned>>

\* s.mu.Lock(); s.isPaused = false; s.mu.Unlock()
ClockResumed ==
    /\ clock = "resumeLock"
    /\ CanLock
    /\ isPaused' = FALSE
    /\ clock' = "select"
    /\ UNCHANGED <<ctor, sensorState, initial, calls, adding, added, loops, tickIdx, currentTick, plants, mu, pc, pauseReturned>>

\* A stop that is also polled inside the plant loop.
ClockRecvStop_Preemptive(t) ==
    /\ clock \in {"select", "tickLoop"}
    /\ pc[t] = "StopSend"
    /\ clock' = "done"
    /\ tickIdx' = 0
    /\ mu' = mu \ {ClockId}
    /\ pc' = [pc EXCEPT ![t] = "idle"]
    /\ UNCHANGED <<ctor, sensorState, initial, calls, adding, added, loops, currentTick, isPaused, plants, pauseReturned>>

\* case <-s.stop: return
ClockRecvStop(t) ==
    /\ clock = "select"
    /\ pc[t] = "StopSend"
    /\ clock' = "done"
    /\ pc' = [pc EXCEPT ![t] = "idle"]
    /\ UNCHANGED <<ctor, sensorState, initial, calls, adding, added, loops, tickIdx, currentTick, isPaused, plants, mu, pauseReturned>>

\* ------------------------------------------------ the calling goroutines
\* Pause up to its s.mu.Unlock()
Pause(t) ==
    /\ pc[t] = "idle"
    /\ CanLock
    /\ IF isPaused
       THEN /\ pc' = [pc EXCEPT ![t] = "PauseIgnored"]
            /\ pauseReturned' = TRUE
            /\ UNCHANGED isPaused
       ELSE /\ isPaused' = TRUE
            /\ pc' = [pc EXCEPT ![t] = "PauseSend"]
            /\ UNCHANGED pauseReturned
    /\ UNCHANGED <<ctor, sensorState, initial, calls, adding, added, loops, clock, tickIdx, currentTick, plants, mu>>

\* log.Println("Already paused, ignoring"); return
PauseIgnored(t) ==
    /\ pc[t] = "PauseIgnored"
    /\ pc' = [pc EXCEPT ![t] = "idle"]
    /\ UNCHANGED <<ctor, sensorState, initial, calls, adding, added, loops, clock, tickIdx, currentTick, isPaused, plants, mu,
                   pauseReturned>>

\* Resume up to its s.mu.Unlock()
Resume(t) ==
    /\ pc[t] = "idle"
    /\ CanLock
    /\ pc' = [pc EXCEPT ![t] = IF ~isPaused THEN "ResumeIgnored" ELSE "ResumeSend"]
    /\ pauseReturned' = FALSE
    /\ UNCHANGED <<ctor, sensorState, initial, calls, adding, added, loops, clock, tickIdx, currentTick, isPaused, plants, mu>>

\* log.Println("Already running, ignoring"); return
ResumeIgnored(t) ==
    /\ pc[t] = "ResumeIgnored"
    /\ pc' = [pc EXCEPT ![t] = "idle"]
    /\ UNCHANGED <<ctor, sensorState, initial, calls, adding, added, loops, clock, tickIdx, currentTick, isPaused, plants, mu, pauseReturned>>

\* Stop up to its send on s.stop
Stop(t) ==
    /\ pc[t] = "idle"
    /\ pc' = [pc EXCEPT ![t] = "StopSend"]
    /\ UNCHANGED <<ctor, sensorState, initial, calls, adding, added, loops, clock, tickIdx, currentTick, isPaused, plants, mu, pauseReturned>>

\* The AddPlant calls that have been issued and have not returned.
Adding == { t \in Threads : pc[t] \in {"AddPlantW", "AddPlantLock"} }

\* AddPlant up to the point where s.mu.Lock() returns or blocks. With the
\* mutex free the call appends and returns; with readers inside, the caller
\* takes the RWMutex's writer mutex, announces itself and waits for them;
\* behind such a writer it queues for the writer mutex.
AddPlant(t, p) ==
    /\ pc[t] = "idle"
    /\ Len(added) + Cardinality(Adding) < MaxPlants
    /\ IF CanLock
       THEN /\ plants' = Append(plants, p)
            /\ added' = Append(added, p)
            /\ UNCHANGED <<pc, adding>>
       ELSE /\ pc' = [pc EXCEPT ![t] =
                        IF WriterWaiting THEN "AddPlantW" ELSE "AddPlantLock"]
            /\ adding' = [adding EXCEPT ![t] =
                            [plant |-> p,
                             tick |-> IF clock = "tickLoop" THEN currentTick ELSE -1,
                             queued |-> WriterWaiting]]
            /\ UNCHANGED <<plants, added>>
    /\ UNCHANGED <<ctor, sensorState, initial, calls, loops, clock, tickIdx, currentTick, isPaused, mu, pauseReturned>>

\* A queued s.mu.Lock() gets the writer mutex and announces itself.
AddPlantAnnounce(t) ==
    /\ pc[t] = "AddPlantW"
    /\ ~WriterWaiting
    /\ pc' = [pc EXCEPT ![t] = "AddPlantLock"]
    /\ UNCHANGED <<ctor, sensorState, initial, calls, adding, added, loops, clock, tickIdx, currentTick, isPaused, plants,
                   mu, pauseReturned>>

\* An append that does not wait for the readers to leave.
AddPlantLocked_NoLock(t) ==
    /\ pc[t] = "AddPlantLock"
    /\ plants' = Append(plants, adding[t].plant)
    /\ added' = Append(added, adding[t].plant)
    /\ adding' = [adding EXCEPT ![t] = NotAdding]
    /\ pc' = [pc EXCEPT ![t] = "idle"]
    /\ UNCHANGED <<ctor, sensorState, initial, calls, loops, clock, tickIdx, currentTick, isPaused, mu, pauseReturned>>

\* An append that overwrites the last element when one is there.
AddPlantLocked_LostUpdate(t) ==
    /\ pc[t] = "AddPlantLock"
    /\ mu = {}
    /\ plants' = IF adding[t].queued /\ Len(plants) > 0
                  THEN [plants EXCEPT ![Len(plants)] = adding[t].plant]
                  ELSE Append(plants, adding[t].plant)
    /\ added' = Append(added, adding[t].plant)
    /\ adding' = [adding EXCEPT ![t] = NotAdding]
    /\ pc' = [pc EXCEPT ![t] = "idle"]
    /\ UNCHANGED <<ctor, sensorState, initial, calls, loops, clock, tickIdx, currentTick, isPaused, mu, pauseReturned>>

\* s.mu.Lock() returns; s.plants = append(s.plants, p); s.mu.Unlock()
AddPlantLocked(t) ==
    /\ pc[t] = "AddPlantLock"
    /\ mu = {}
    /\ plants' = Append(plants, adding[t].plant)
    /\ added' = Append(added, adding[t].plant)
    /\ adding' = [adding EXCEPT ![t] = NotAdding]
    /\ pc' = [pc EXCEPT ![t] = "idle"]
    /\ UNCHANGED <<ctor, sensorState, initial, calls, loops, clock, tickIdx, currentTick, isPaused, mu, pauseReturned>>

\* GetPlants / GetCurrentTick: s.mu.RLock() ... the deferred s.mu.RUnlock()
RLockCall(t, op) ==
    /\ pc[t] = "idle"
    /\ ~WriterWaiting
    /\ pc' = [pc EXCEPT ![t] = op]
    /\ mu' = mu \cup {t}
    /\ UNCHANGED <<ctor, sensorState, initial, calls, adding, added, loops, clock, tickIdx, currentTick, isPaused, plants, pauseReturned>>

RUnlockReturn(t, op) ==
    /\ pc[t] = op
    /\ pc' = [pc EXCEPT ![t] = "idle"]
    /\ mu' = mu \ {t}
    /\ UNCHANGED <<ctor, sensorState, initial, calls, adding, added, loops, clock, tickIdx, currentTick, isPaused, plants, pauseReturned>>

GetPlants(t) == RLockCall(t, "GetPlants")
GetPlantsReturn(t) == RUnlockReturn(t, "GetPlants")
GetCurrentTick(t) == RLockCall(t, "GetCurrentTick")
GetCurrentTickReturn(t) == RUnlockReturn(t, "GetCurrentTick")

\* ------------------------------------------------------ specification
\* main.go hands its plants to AddPlant in the order of getTestPlants, each
\* once: the plant the next AddPlant call is given.
NotYetAdded ==
    LET issued == Len(added) + Cardinality(Adding)
    IN  IF issued < Len(getTestPlants) THEN {getTestPlants[issued + 1]} ELSE {}

\* The steps that need no new call: the clock's own and the handoffs.
ClockNext ==
    \/ ClockTick
    \/ ClockOnTick
    \/ ClockRUnlock
    \/ ClockIncr
    \/ ClockResumed
    \/ \E t \in Threads : ClockRecvPause(t)
    \/ \E t \in Threads : ClockRecvResume(t)
    \/ \E t \in Threads : ClockRecvStop(t)

CallNext ==
    \/ Start
    \/ \E t \in Threads : Pause(t)
    \/ \E t \in Threads : PauseIgnored(t)
    \/ \E t \in Threads : Resume(t)
    \/ \E t \in Threads : ResumeIgnored(t)
    \/ \E t \in Threads : Stop(t)
    \/ \E t \in Threads : \E p \in NotYetAdded : AddPlant(t, p)
    \/ \E t \in Threads : AddPlantAnnounce(t)
    \/ \E t \in Threads : AddPlantLocked(t)
    \/ \E t \in Threads : GetPlants(t)
    \/ \E t \in Threads : GetPlantsReturn(t)
    \/ \E t \in Threads : GetCurrentTick(t)
    \/ \E t \in Threads : GetCurrentTickReturn(t)

Next == ClockNext \/ CallNext

Spec == Init /\ [][Next]_vars

\* ------------------------------------- AddPlant with any argument
\* A caller may hand AddPlant any *models.Plant: a plant of main.go, also a
\* second time, or nil.
AdmitArgs == {getTestPlants[1], getTestPlants[2], NilPlant}

AdmitNext ==
    \/ Start
    \/ ClockTick
    \/ ClockOnTick
    \/ ClockPanic
    \/ ClockRUnlock
    \/ ClockIncr
    \/ \E t \in Threads : \E p \in AdmitArgs : AddPlant(t, p)
    \/ \E t \in Threads : AddPlantAnnounce(t)
    \/ \E t \in Threads : AddPlantLocked(t)

AdmitSpec == Init /\ [][AdmitNext]_vars

\* ------------------------------------------- plant_test.go's harness
\* The values the tests give the fields of their Plant literals.
TestHealth == {0, 10, 290, 300, 490, 500, 950, 1000}
TestSaturation == {0, 20, 100, 300, 450, 451, 600, 700, 701, 900}
TestGrowth == {0, 500, 950}
TestTypes ==
    { PlantType("", 600, 300, 700, base, depl, degr, enh) :
        base \in {0, 100, 200}, depl \in {0, 20}, degr \in {0, 80, 600},
        enh \in {0, 50} }

\* &Plant{Type: ..., Health: ..., SoilSaturation: ..., GrowthStage: ..., Alive: ...}
PlantLiteral(type, sat, health, growth, alive) ==
    [ZeroPlant EXCEPT !.Type = type, !.SoilSaturation = sat, !.Health = health,
                      !.GrowthStage = growth, !.Alive = alive]

PlantLiterals ==
    { PlantLiteral(type, sat, health, growth, alive) :
        type \in TestTypes, sat \in TestSaturation, health \in TestHealth,
        growth \in TestGrowth, alive \in BOOLEAN }

PlantInit ==
    /\ ctor = NotCalled
    /\ NoSensors
    /\ initial \in PlantLiterals
    /\ plants = <<initial>>
    /\ calls = 0
    /\ clock = "idle"
    /\ tickIdx = 0
    /\ currentTick = 0
    /\ isPaused = FALSE
    /\ mu = {}
    /\ pc = [t \in Threads |-> "idle"]
    /\ pauseReturned = FALSE
    /\ adding = [t \in Threads |-> NotAdding]
    /\ added = <<>>
    /\ loops = 0

\* plant.OnTick() called by a test on its literal
TestOnTick ==
    /\ calls < MaxCalls
    /\ plants' = [plants EXCEPT ![1] = OnTick(@)]
    /\ calls' = calls + 1
    /\ UNCHANGED <<ctor, sensorState, initial, adding, added, loops, clock, tickIdx, currentTick, isPaused, mu, pc,
                   pauseReturned>>

PlantNext == TestOnTick

PlantSpec == PlantInit /\ [][PlantNext]_vars

\* ------------------------------------------------- calls of NewPlant
\* The arguments NewPlant is called with: values inside [0,1], below 0
\* and above 1 for every number, and saturations in and out of order.
CtorIds == {"", "tomato-1"}
CtorSections == {"", "section-A"}
CtorSaturations == {0 - 1, 300, 500, SCALE + 1}
CtorRates == {0 - 1, 50, SCALE + 1}
CtorDegradations == {0 - 1, 50, 600, SCALE + 1}
CtorTypes ==
    { PlantType(name, opt, min, max, base, depl, degr, enh) :
        name \in {"", "Tomato"},
        opt \in {0 - 1, 200, 600, SCALE + 1},
        min \in {0 - 1, 300, SCALE + 1},
        max \in {0 - 1, 100, 800, SCALE + 1},
        base \in CtorRates, depl \in CtorRates, degr \in CtorDegradations,
        enh \in CtorRates }

NewPlantInit ==
    /\ \E id \in CtorIds, plantType \in CtorTypes, sectionID \in CtorSections,
          initialSaturation \in CtorSaturations :
            ctor = [NotCalled EXCEPT !.id = id, !.plantType = plantType,
                                     !.sectionID = sectionID,
                                     !.initialSaturation = initialSaturation]
    /\ NoSensors
    /\ clock = "idle"
    /\ tickIdx = 0
    /\ currentTick = 0
    /\ isPaused = FALSE
    /\ plants = <<>>
    /\ mu = {}
    /\ pc = [t \in Threads |-> "idle"]
    /\ pauseReturned = FALSE
    /\ initial = ZeroPlant
    /\ calls = 0
    /\ adding = [t \in Threads |-> NotAdding]
    /\ added = <<>>
    /\ loops = 0

\* plant, err := models.NewPlant(id, plantType, sectionID, initialSaturation)
CallNewPlant ==
    /\ ~ctor.returned
    /\ LET err == NewPlantError(ctor.id, ctor.plantType, ctor.sectionID,
                                ctor.initialSaturation)
       IN  ctor' = [ctor EXCEPT
                       !.returned = TRUE,
                       !.err = err,
                       !.plant = IF err # "" THEN NilPlant
                                 ELSE NewPlant(ctor.id, ctor.plantType, ctor.sectionID,
                                               ctor.initialSaturation, 0)]
    /\ UNCHANGED <<sensorState, initial, calls, adding, added, loops, clock, tickIdx,
                   currentTick, isPaused, plants, mu, pc, pauseReturned>>

\* The plant NewPlant returned, as the OnTick calls made since left it.
BuiltPlant == IF plants = <<>> THEN ctor.plant ELSE plants[1]

\* plant.OnTick() on the plant NewPlant returned
TickNewPlant ==
    /\ ctor.returned
    /\ ctor.err = ""
    /\ calls < MaxCalls
    /\ plants' = <<OnTick(BuiltPlant)>>
    /\ calls' = calls + 1
    /\ UNCHANGED <<ctor, sensorState, initial, adding, added, loops, clock, tickIdx,
                   currentTick, isPaused, mu, pc, pauseReturned>>

NewPlantNext ==
    \/ CallNewPlant
    \/ TickNewPlant

NewPlantSpec == NewPlantInit /\ [][NewPlantNext]_vars

\* ------------------------------------------------- the sensor manager
\* mockPlantDataSource.GetPlantsBySectionID, for a data source that holds
\* the plants of the simulation under their sections.
GetPlantsBySectionID(sectionID) ==
    SelectSeq(plants, LAMBDA p : p.SectionID = sectionID)

\* total := 0.0; for _, plant := range plants { total += plant.SoilSaturation }
RECURSIVE TotalSaturation(_)
TotalSaturation(ps) ==
    IF ps = <<>> THEN 0
    ELSE TotalSaturation(SubSeq(ps, 1, Len(ps) - 1)) + ps[Len(ps)].SoilSaturation

\* The call that returns now is one more call that has returned.
Returns(result) == sret' = [result EXCEPT !.n = sret.n + 1, !.tick = currentTick]

\* AddSensor's return with an error and its return after storing.
AddSensorFails(sensor, err) ==
    /\ Returns(CallResult("AddSensor", sensor, err, "", 0))
    /\ UNCHANGED <<sensorsByID, sensorsBySection>>

AddSensorStores(sensor) ==
    /\ sensorsByID' = [sensorsByID EXCEPT ![sensor.ID] = sensor]
    /\ sensorsBySection' =
          [sensorsBySection EXCEPT ![sensor.SectionID] = Append(@, sensor)]
    /\ Returns(CallResult("AddSensor", sensor, "", "", 0))

\* AddSensor without the check for an id that is already registered.
AddSensor_NoDuplicateCheck(sensor) ==
    /\ sret.n < MaxCalls
    /\ IF sensor = NilSensor THEN AddSensorFails(sensor, "sensor cannot be nil")
       ELSE IF sensor.ID = "" THEN AddSensorFails(sensor, "sensor ID cannot be empty")
       ELSE IF sensor.SectionID = ""
           THEN AddSensorFails(sensor, "sensor section ID cannot be empty")
       ELSE AddSensorStores(sensor)
    /\ UNCHANGED <<ctor, initial, calls, adding, added, loops, clock, tickIdx,
                   currentTick, isPaused, plants, mu, pc, pauseReturned>>

\* AddSensor storing a sensor under its id only.
AddSensor_NoSectionIndex(sensor) ==
    /\ sret.n < MaxCalls
    /\ IF sensor = NilSensor THEN AddSensorFails(sensor, "sensor cannot be nil")
       ELSE IF sensor.ID = "" THEN AddSensorFails(sensor, "sensor ID cannot be empty")
       ELSE IF sensor.SectionID = ""
           THEN AddSensorFails(sensor, "sensor section ID cannot be empty")
       ELSE IF sensorsByID[sensor.ID] # NilSensor
           THEN AddSensorFails(sensor, "sensor with ID already exists")
       ELSE /\ sensorsByID' = [sensorsByID EXCEPT ![sensor.ID] = sensor]
            /\ UNCHANGED sensorsBySection
            /\ Returns(CallResult("AddSensor", sensor, "", "", 0))
    /\ UNCHANGED <<ctor, initial, calls, adding, added, loops, clock, tickIdx,
                   currentTick, isPaused, plants, mu, pc, pauseReturned>>

\* sensorManager.AddSensor: the validation, then the section under s.mu.Lock()
AddSensor(sensor) ==
    /\ sret.n < MaxCalls
    /\ IF sensor = NilSensor THEN AddSensorFails(sensor, "sensor cannot be nil")
       ELSE IF sensor.ID = "" THEN AddSensorFails(sensor, "sensor ID cannot be empty")
       ELSE IF sensor.SectionID = ""
           THEN AddSensorFails(sensor, "sensor section ID cannot be empty")
       ELSE IF sensorsByID[sensor.ID] # NilSensor
           THEN AddSensorFails(sensor, "sensor with ID already exists")
       ELSE AddSensorStores(sensor)
    /\ UNCHANGED <<ctor, initial, calls, adding, added, loops, clock, tickIdx,
                   currentTick, isPaused, plants, mu, pc, pauseReturned>>

\* The id GetReading is asked for, as the argument of the call.
ById(sensorID) == Sensor(sensorID, "", "")

\* GetReading leaving the dead plants out of the average.
GetReadingResult_LivingOnly(sensorID) ==
    LET sensor == sensorsByID[sensorID]
        ps == SelectSeq(GetPlantsBySectionID(sensor.SectionID), LAMBDA p : p.Alive)
    IN  IF sensor = NilSensor
        THEN CallResult("GetReading", ById(sensorID),
                        "no sensor found for the provided ID", "", 0)
        ELSE IF Len(ps) = 0
        THEN CallResult("GetReading", ById(sensorID), "no plants in section", "", 0)
        ELSE CallResult("GetReading", ById(sensorID), "", sensor.ID,
                        TotalSaturation(ps) \div Len(ps))

\* GetReading without "if len(plants) == 0": the division of 0.0 by 0
\* yields NaN (held as 0 here) in a reading returned with a nil error.
GetReadingResult_NoEmptyCheck(sensorID) ==
    LET sensor == sensorsByID[sensorID]
        ps == GetPlantsBySectionID(sensor.SectionID)
    IN  IF sensor = NilSensor
        THEN CallResult("GetReading", ById(sensorID),
                        "no sensor found for the provided ID", "", 0)
        ELSE CallResult("GetReading", ById(sensorID), "", sensor.ID,
                        IF Len(ps) = 0 THEN 0 ELSE TotalSaturation(ps) \div Len(ps))

\* GetReading taking the sensor of the first registered id when the id it
\* is asked for is not registered.
GetReadingResult_FallsBack(sensorID) ==
    LET sensor == IF sensorsByID[sensorID] # NilSensor THEN sensorsByID[sensorID]
                  ELSE sensorsByID["sensor-1"]
        ps == GetPlantsBySectionID(sensor.SectionID)
    IN  IF sensor = NilSensor
        THEN CallResult("GetReading", ById(sensorID),
                        "no sensor found for the provided ID", "", 0)
        ELSE IF Len(ps) = 0
        THEN CallResult("GetReading", ById(sensorID), "no plants in section", "", 0)
        ELSE CallResult("GetReading", ById(sensorID), "", sensor.ID,
                        TotalSaturation(ps) \div Len(ps))

\* What sensorManager.GetReading returns.
GetReadingResult(sensorID) ==
    LET sensor == sensorsByID[sensorID]
        ps == GetPlantsBySectionID(sensor.SectionID)
    IN  IF sensor = NilSensor
        THEN CallResult("GetReading", ById(sensorID),
                        "no sensor found for the provided ID", "", 0)
        ELSE IF Len(ps) = 0
        THEN CallResult("GetReading", ById(sensorID), "no plants in section", "", 0)
        ELSE CallResult("GetReading", ById(sensorID), "", sensor.ID,
                        TotalSaturation(ps) \div Len(ps))

\* GetReading writing the average back into the plants it has read.
GetReading_WritesPlants(sensorID) ==
    /\ sret.n < MaxCalls
    /\ Returns(GetReadingResult(sensorID))
    /\ plants' = [i \in 1..Len(plants) |->
                    IF /\ GetReadingResult(sensorID).err = ""
                       /\ plants[i].SectionID = sensorsByID[sensorID].SectionID
                    THEN [plants[i] EXCEPT !.SoilSaturation =
                                              GetReadingResult(sensorID).Value]
                    ELSE plants[i]]
    /\ UNCHANGED <<sensorsByID, sensorsBySection, ctor, initial, calls, adding, added,
                   loops, clock, tickIdx, currentTick, isPaused, mu, pc,
                   pauseReturned>>

\* sensorManager.GetReading, under s.mu.RLock()
GetReading(sensorID) ==
    /\ sret.n < MaxCalls
    /\ Returns(GetReadingResult(sensorID))
    /\ UNCHANGED <<sensorsByID, sensorsBySection, ctor, initial, calls, adding, added,
                   loops, clock, tickIdx, currentTick, isPaused, plants, mu, pc,
                   pauseReturned>>

\* The section a section-wide query is asked for, as the argument of the call.
BySection(sectionID) == Sensor("", "", sectionID)

\* sensorManager.GetSectionReadings
GetSectionReadings(sectionID) ==
    /\ sret.n < MaxCalls
    /\ Returns(CallResult("GetSectionReadings", BySection(sectionID),
                          "not implemented", "", 0))
    /\ UNCHANGED <<sensorsByID, sensorsBySection, ctor, initial, calls, adding, added,
                   loops, clock, tickIdx, currentTick, isPaused, plants, mu, pc,
                   pauseReturned>>

\* sensorManager.GetAverageSaturation
GetAverageSaturation(sectionID) ==
    /\ sret.n < MaxCalls
    /\ Returns(CallResult("GetAverageSaturation", BySection(sectionID),
                          "not implemented", "", 0))
    /\ UNCHANGED <<sensorsByID, sensorsBySection, ctor, initial, calls, adding, added,
                   loops, clock, tickIdx, currentTick, isPaused, plants, mu, pc,
                   pauseReturned>>

\* sensor_manager_test.go's createTestPlant
TestPlant == PlantType("TestPlant", 700, 300, 900, 10, 20, 50, 30)
createTestPlant(id, sectionID, soilSaturation) ==
    NewPlant(id, TestPlant, sectionID, soilSaturation, 0)

\* A plant that its first tick kills: it is too dry and its type loses
\* all health in one tick.
Fragile == PlantType("Fragile", 700, 300, 900, 10, 20, SCALE, 30)

\* The plants of TestGetReading.
TestGetReadingPlants ==
    << createTestPlant("plant-1", "section-A", 600),
       createTestPlant("plant-2", "section-A", 800),
       createTestPlant("plant-3", "section-A", 700) >>

\* The plants the data source holds: none, TestGetReading's, main.go's,
\* and a section with a plant that dies.
SensorFixtures ==
    { <<>>,
      TestGetReadingPlants,
      getTestPlants,
      << createTestPlant("plant-1", "section-A", 600),
         NewPlant("plant-2", Fragile, "section-A", 100, 0) >> }

\* The sensors AddSensor is called with.
SensorArgs ==
    { Sensor("sensor-1", "soil_moisture", "section-A"),
      Sensor("sensor-1", "temperature", "section-B"),
      Sensor("sensor-1", "soil_moisture", "empty-section"),
      Sensor("sensor-2", "soil_moisture", "section-A"),
      NilSensor,
      Sensor("", "soil_moisture", "section-A"),
      Sensor("sensor-1", "soil_moisture", "") }

\* A sensor manager over a simulator to which the plants were added.
SensorInit ==
    /\ ctor = NotCalled
    /\ NoSensors
    /\ plants \in SensorFixtures
    /\ added = plants
    /\ clock = "idle"
    /\ tickIdx = 0
    /\ currentTick = 0
    /\ isPaused = FALSE
    /\ mu = {}
    /\ pc = [t \in Threads |-> "idle"]
    /\ pauseReturned = FALSE
    /\ initial = ZeroPlant
    /\ calls = 0
    /\ adding = [t \in Threads |-> NotAdding]
    /\ loops = 0

SensorNext ==
    \/ Start
    \/ ClockTick
    \/ ClockOnTick
    \/ ClockRUnlock
    \/ ClockIncr
    \/ \E sensor \in SensorArgs : AddSensor(sensor)
    \/ \E sensorID \in SensorKeys : GetReading(sensorID)
    \/ \E sectionID \in SectionKeys : GetSectionReadings(sectionID)
    \/ \E sectionID \in SectionKeys : GetAverageSaturation(sectionID)

SensorSpec == SensorInit /\ [][SensorNext]_vars

\* -------------------------------------------------------------- claims
\* The clock is inside a tick whose loop has updated some plants and not
\* yet the others.
PartialTick == clock = "tickLoop" /\ 1 < tickIdx /\ tickIdx <= Len(plants)

\* The clock goroutine is between Start and its return, and not parked.
Running == clock \in {"select", "tickLoop", "tickIncr", "resumeLock"}

\* No OnTick is applied and the tick counter stands still in this step.
NoTickStep ==
    /\ currentTick' = currentTick
    /\ \A i \in 1..Len(plants) : plants'[i] = plants[i]

PauseCalled(t) == pc[t] = "idle" /\ pc'[t] \in {"PauseSend", "PauseIgnored"}
ResumeCalled(t) == pc[t] = "idle" /\ pc'[t] \in {"ResumeSend", "ResumeIgnored"}
NoOtherControlCall(t) ==
    \A u \in Threads \ {t} :
        pc[u] \notin {"PauseSend", "PauseIgnored", "ResumeSend", "ResumeIgnored"}

\* C1: no reader inside GetPlants or GetCurrentTick (holding the read lock)
\* ever coexists with a tick whose plant loop is part-way through, so a read
\* sees all plants before the tick or all plants after it.
C1_NoPartialTickRead ==
    \A t \in Threads :
        pc[t] \in {"GetPlants", "GetCurrentTick"} => ~PartialTick

\* C2: on a started, unstopped simulator (no other Pause or Resume call in
\* progress) a Pause call returns only with the clock goroutine parked
\* waiting for a resume: it takes the "already paused" return only if the
\* clock is parked, its handoff leaves the clock parked, and while the clock
\* is parked no tick is processed.
C2_PauseReturnsParked ==
    [][ /\ \A t \in Threads :
              (PauseCalled(t) /\ pc'[t] = "PauseIgnored" /\ NoOtherControlCall(t)
                   /\ clock \notin {"idle", "done"})
                  => clock = "waitResume"
        /\ \A t \in Threads :
              (pc[t] = "PauseSend" /\ pc'[t] = "idle") => clock' = "waitResume"
        /\ (clock = "waitResume" => NoTickStep) ]_vars

\* C3: while a Stop call is waiting on a running or paused simulator, the
\* simulator can always take a step of its own (a clock step or a handoff)
\* towards that call's return, without any further Resume being called.
C3_StopCanProceed ==
    ((\E t \in Threads : pc[t] = "StopSend") /\ clock \notin {"idle", "done"})
        => ENABLED ClockNext

\* C4: the stop handoff is taken only between ticks, a tick in flight leaves
\* its loop only after the last plant, and once the clock has taken the
\* handoff (Stop has returned) it stays stopped: no OnTick and no change of
\* currentTick, whatever is called afterwards.
C4_StopIrreversible ==
    [][ /\ (clock = "done" => clock' = "done" /\ NoTickStep)
        /\ (clock' = "done" => clock \in {"select", "done"})
        /\ (clock = "tickLoop" /\ clock' # "tickLoop"
                => tickIdx > Len(plants) /\ clock' = "tickIncr")
        /\ (clock = "tickIncr" /\ clock' # "tickIncr"
                => clock' = "select" /\ currentTick' = currentTick + 1) ]_vars

\* A Resume call is pending on a stopped simulator that processed a tick
\* over a non-empty collection.
C4_Witness ==
    /\ clock = "done"
    /\ \E t \in Threads : pc[t] \in {"ResumeSend", "ResumeIgnored"}
    /\ currentTick > 0
    /\ Len(plants) > 0

\* C5: a Resume called while the clock is running (no other Pause or Resume
\* call in progress) takes the "already running" path: it never goes on to
\* the blocking send on the resume channel.
C5_ResumeWhileRunningIsNoop ==
    [][ \A t \in Threads :
            (ResumeCalled(t) /\ Running /\ NoOtherControlCall(t))
                => pc'[t] = "ResumeIgnored" ]_vars

\* C6: a Pause called after an earlier Pause returned and before any Resume
\* (no other Pause or Resume call in progress) takes the "already paused"
\* path and finds the clock parked.
C6_PauseWhilePausedIsNoop ==
    [][ \A t \in Threads :
            (PauseCalled(t) /\ pauseReturned /\ NoOtherControlCall(t)
                 /\ clock \notin {"idle", "done"})
                => pc'[t] = "PauseIgnored" /\ clock = "waitResume" ]_vars

\* C7: from the pause handoff to the end of the resume handoff no tick is
\* processed (currentTick and every plant keep their values), the paused
\* flag stays set while the clock is parked, and the clock leaves the resume
\* handoff into its select loop with the paused flag cleared.
C7_PauseResumeRestoresRunning ==
    [][ /\ (clock \in {"waitResume", "resumeLock"} => NoTickStep)
        /\ (clock = "waitResume" => isPaused)
        /\ (clock = "waitResume" /\ clock' # "waitResume"
                => clock' = "resumeLock")
        /\ (clock = "resumeLock" /\ clock' # "resumeLock"
                => clock' = "select" /\ ~isPaused') ]_vars

\* After at least one tick the clock has taken a pause handoff and then a
\* resume handoff and is about to clear the flag; a further tick can follow.
C7_Witness ==
    /\ clock = "resumeLock"
    /\ isPaused
    /\ currentTick > 0
    /\ currentTick < MaxTick

\* C8: OnTick changes no field of a plant that is not alive, however often
\* it is called, so a dead plant never becomes alive again.
C8_DeadIsAbsorbing ==
    [][ \A i \in 1..Len(plants) : ~plants[i].Alive => plants'[i] = plants[i] ]_vars

\* A test literal that was dead from the start, with non-zero fields, after
\* two OnTick calls.
C8_Witness ==
    /\ calls >= 2
    /\ ~initial.Alive
    /\ initial.Health > 0
    /\ initial.GrowthStage > 0
    /\ initial.SoilSaturation > 0

\* The scenario of TestDeath_HealthDegradesToZero and of the spec: health
\* 0.01, degradation 0.08, saturation 0.1 below min 0.3.
C9_Example ==
    PlantLiteral(PlantType("", 600, 300, 700, 0, 20, 80, 0), 100, 10, 0, TRUE)

\* C9: when an OnTick leaves a living plant with health <= 0, the plant is
\* dead after that call and its growthStage and soilSaturation are the ones
\* it had before the call; the example plant ends with health 0, dead.
C9_DeathShortCircuits ==
    [][ /\ \A i \in 1..Len(plants) :
              (plants[i].Alive /\ plants'[i].Health <= 0)
                  => /\ ~plants'[i].Alive
                     /\ plants'[i].GrowthStage = plants[i].GrowthStage
                     /\ plants'[i].SoilSaturation = plants[i].SoilSaturation
        /\ OnTick(C9_Example) = [C9_Example EXCEPT !.Health = 0, !.Alive = FALSE] ]_vars

\* A living literal with growth and saturation to lose has died in its
\* first OnTick.
C9_Witness ==
    /\ calls = 1
    /\ initial.Alive
    /\ initial.Health > 0
    /\ initial.GrowthStage > 0
    /\ initial.SoilSaturation > 0
    /\ initial.Type.BaseGrowthRate > 0
    /\ initial.Type.SaturationDepletion > 0
    /\ ~plants[1].Alive

InRange(p) ==
    p.Type.MinSaturation <= p.SoilSaturation
        /\ p.SoilSaturation <= p.Type.MaxSaturation

\* The test's literal is a plant as NewPlant leaves it (alive, health 1,
\* growth 0) of a type whose health rates are positive.
FreshPlant ==
    /\ initial.Alive
    /\ initial.Health = SCALE
    /\ initial.GrowthStage = 0
    /\ initial.Type.HealthDegradationRate > 0
    /\ initial.Type.HealthEnhancementRate > 0

\* C10 as stated: one OnTick of a living plant strictly lowers health
\* outside the saturation range and strictly raises it inside (here for
\* plants that started as NewPlant leaves them, with positive rates).
C10_HealthStrictlyMoves ==
    [][ \A i \in 1..Len(plants) :
            (plants[i].Alive /\ calls' = calls + 1 /\ FreshPlant)
                => IF InRange(plants[i])
                   THEN plants'[i].Health > plants[i].Health
                   ELSE plants'[i].Health < plants[i].Health ]_vars

\* C10 amended: one OnTick of a living plant sets health to
\* max(health - degradation, 0) outside the range, which is lower only if
\* the rate is positive and health was above 0, and to
\* min(health + enhancement, 1) inside, which is higher only if the rate is
\* positive and health was below 1.
C10_HealthUpdate ==
    [][ \A i \in 1..Len(plants) :
            (plants[i].Alive /\ calls' = calls + 1)
                => LET h == plants[i].Health
                       d == plants[i].Type.HealthDegradationRate
                       e == plants[i].Type.HealthEnhancementRate
                       h2 == plants'[i].Health
                   IN  IF InRange(plants[i])
                       THEN /\ h2 = Min(h + e, SCALE)
                            /\ (h2 > h <=> (e > 0 /\ h < SCALE))
                       ELSE /\ h2 = Max(h - d, 0)
                            /\ (h2 < h <=> (d > 0 /\ h > 0)) ]_vars

\* A plant as NewPlant leaves it (health 1) has been ticked inside its
\* range and kept health 1, and the rates are positive.
C10_Witness ==
    /\ calls = 1
    /\ FreshPlant
    /\ InRange(initial)
    /\ plants[1].Health = SCALE

InUnit(x) == 0 <= x /\ x <= SCALE

\* This OnTick of plant i is one that reaches updateGrowthStage and
\* updateSoilSaturation: the plant was alive and did not die in it.
Survives(i) == plants[i].Alive /\ plants'[i].Alive /\ plants'[i] # plants[i]

\* C11: over any sequence of OnTick calls a plant's growthStage never goes
\* down and never exceeds 1; a call that grows a plant whose growthStage
\* plus the tick's rate would pass 1 leaves growthStage at exactly 1.
C11_GrowthMonotoneCapped ==
    [][ \A i \in 1..Len(plants) :
            /\ plants'[i].GrowthStage >= plants[i].GrowthStage
            /\ plants'[i].GrowthStage <= SCALE
            /\ (Survives(i) /\ plants'[i].Health >= HEALTH_FLOOR
                  /\ plants[i].GrowthStage
                        + growthRate([plants[i] EXCEPT !.Health = plants'[i].Health])
                        > SCALE)
                  => plants'[i].GrowthStage = SCALE ]_vars

\* A plant that started below 1 was capped: its growthStage plus the rate
\* passed 1 and it now stands at exactly 1 after a further call.
C11_Witness ==
    /\ calls >= 2
    /\ initial.Alive
    /\ initial.GrowthStage = 950
    /\ initial.Type.BaseGrowthRate = 200
    /\ plants[1].Alive
    /\ plants[1].GrowthStage = SCALE

\* C12: over any sequence of OnTick calls a plant's soilSaturation never
\* goes up and never falls below 0; a call the plant survives sets it to
\* saturation minus saturationDepletion, or to exactly 0 when that
\* difference is negative.
C12_SaturationMonotoneClamped ==
    [][ \A i \in 1..Len(plants) :
            /\ plants'[i].SoilSaturation <= plants[i].SoilSaturation
            /\ plants'[i].SoilSaturation >= 0
            /\ (plants[i].Alive /\ plants'[i].Alive /\ calls' = calls + 1)
                  => plants'[i].SoilSaturation =
                       Max(plants[i].SoilSaturation
                             - plants[i].Type.SaturationDepletion, 0) ]_vars

\* A living plant with less saturation left than one depletion was ticked
\* twice and stands at saturation 0.
C12_Witness ==
    /\ calls >= 2
    /\ initial.SoilSaturation > 0
    /\ initial.SoilSaturation < 2 * initial.Type.SaturationDepletion
    /\ plants[1].Alive
    /\ plants[1].SoilSaturation = 0

\* C13: health is within [0,1] before and after every OnTick; a call that
\* enhances past 1 leaves health at exactly 1 and a call that degrades
\* past 0 leaves it at exactly 0.
C13_HealthInUnit ==
    [][ \A i \in 1..Len(plants) :
            /\ InUnit(plants[i].Health)
            /\ InUnit(plants'[i].Health)
            /\ (plants[i].Alive /\ calls' = calls + 1)
                  => /\ (InRange(plants[i])
                           /\ plants[i].Health
                                 + plants[i].Type.HealthEnhancementRate > SCALE)
                          => plants'[i].Health = SCALE
                     /\ (~InRange(plants[i])
                           /\ plants[i].Health
                                 - plants[i].Type.HealthDegradationRate < 0)
                          => plants'[i].Health = 0 ]_vars

\* A plant as NewPlant leaves it was ticked inside its range (health held at
\* 1 by the clamp), dried out of the range, and was then degraded past 0 and
\* clamped to exactly 0.
C13_Witness ==
    /\ calls = 3
    /\ FreshPlant
    /\ InRange(initial)
    /\ initial.Type.HealthDegradationRate = 600
    /\ plants[1].Health = 0
    /\ ~plants[1].Alive

\* This step is the clock entering a tick's plant loop.
TickBegins == clock # "tickLoop" /\ clock' = "tickLoop"

\* C14: a tick's plant loop begins only from the clock's select, never inside
\* another loop; while it runs the collection keeps its members, and its
\* steps apply OnTick once to plant 1, then once to plant 2, and so on to
\* the last, after which the loop ends; outside a loop no plant is ticked.
C14_TicksSequential ==
    [][ /\ TickBegins
              => clock = "select" /\ tickIdx' = 1 /\ plants' = plants
        /\ clock = "tickLoop"
              => /\ Len(plants') = Len(plants)
                 /\ IF tickIdx' = tickIdx
                    THEN plants' = plants /\ clock' = "tickLoop"
                    ELSE IF tickIdx <= Len(plants)
                    THEN /\ clock' = "tickLoop"
                         /\ tickIdx' = tickIdx + 1
                         /\ plants' = [plants EXCEPT ![tickIdx] = OnTick(@)]
                    ELSE clock' = "tickIncr" /\ plants' = plants
        /\ clock # "tickLoop"
              => \A i \in 1..Len(plants) : plants'[i] = plants[i] ]_vars

\* The second tick's loop has passed the last of two plants that were both
\* there from the first tick on: each has had OnTick exactly twice.
C14_Witness ==
    /\ clock = "tickLoop"
    /\ currentTick = 1
    /\ Len(plants) = 2
    /\ tickIdx = 3
    /\ plants[1] = OnTick(OnTick(getTestPlants[1]))
    /\ plants[2] = OnTick(OnTick(getTestPlants[2]))

TickLag == IF clock = "tickIncr" THEN 1 ELSE 0

C16_AddedMidTickTickedNext ==
    [][ /\ clock = "tickLoop" => Len(plants') = Len(plants)
        /\ TickBegins => \A t \in Adding : adding[t].tick = -1 ]_vars

\* C16 amended: no AddPlant lands while a plant loop runs; the plant lands
\* as it was handed over (no OnTick applied), at the end of the collection;
\* a loop never begins while a caller that has announced its Lock() to the
\* readers is waiting, and when a loop begins the collection holds every
\* plant whose AddPlant has returned. A caller queued for the writer mutex
\* behind another writer can still be waiting when the next loop begins.
C16_AddExcludedFromRunningTick ==
    [][ /\ clock = "tickLoop" => Len(plants') = Len(plants)
        /\ Len(plants') # Len(plants)
              => /\ ClockId \notin mu
                 /\ Len(added') = Len(added) + 1
                 /\ plants' = Append(plants, added'[Len(added')])
        /\ TickBegins
              => /\ \A t \in Threads : pc[t] # "AddPlantLock"
                 /\ Len(plants) = Len(added)
                 /\ \A i \in 1..Len(added) : plants[i].ID = added[i].ID ]_vars

\* Tick N's loop is complete and an AddPlant issued while it ran is still
\* waiting for the lock: its plant had no OnTick in tick N.
C16_Witness ==
    /\ clock = "tickIncr"
    /\ Len(plants) >= 1
    /\ \E t \in Threads :
          pc[t] = "AddPlantLock" /\ adding[t].tick = currentTick

\* C17: the collection holds exactly the plants whose AddPlant has returned,
\* each once and in the order of return, whatever calls overlapped; as long
\* as no tick has fired they are the plants as they were handed over.
C17_NoLostAdds ==
    /\ Len(plants) = Len(added)
    /\ \A i \in 1..Len(added) : i <= Len(plants) => plants[i].ID = added[i].ID
    /\ \A i, j \in 1..Len(plants) : i # j => plants[i].ID # plants[j].ID
    /\ (loops = 0 /\ clock # "tickLoop") => plants = added

\* No tick has fired, one AddPlant has returned and another one, issued
\* while a reader held the lock, is waiting for it.
C17_Witness ==
    /\ loops = 0
    /\ clock \in {"idle", "select"}
    /\ Len(plants) = 1
    /\ \E t \in Threads : pc[t] = "AddPlantLock"

\* The steps that complete or advance an AddPlant, GetPlants or
\* GetCurrentTick call in progress.
DataNext ==
    \E u \in Threads :
        \/ AddPlantAnnounce(u)
        \/ AddPlantLocked(u)
        \/ GetPlantsReturn(u)
        \/ GetCurrentTickReturn(u)

InDataCall(t) == pc[t] \in {"AddPlantW", "AddPlantLock", "GetPlants", "GetCurrentTick"}

\* C18: while the clock is parked in its pause branch, or a Pause or Resume
\* call waits for its handoff, the parked clock holds no lock, and whenever
\* an AddPlant, GetPlants or GetCurrentTick call is in progress one of
\* these calls can take its next step (or the plant loop it waits for can),
\* and an idle caller can start a read unless a writer is about to land:
\* none of them waits for a Resume.
C18_DataCallsNeverWaitForResume ==
    (clock = "waitResume" \/ \E t \in Threads : pc[t] \in {"PauseSend", "ResumeSend"})
        => /\ clock = "waitResume" => ClockId \notin mu
           /\ (\E t \in Threads : InDataCall(t))
                 => \/ ENABLED DataNext
                    \/ clock = "tickLoop" /\ ENABLED (ClockOnTick \/ ClockRUnlock)
           /\ \A t \in Threads :
                 pc[t] = "idle"
                     => \/ ENABLED GetPlants(t) /\ ENABLED GetCurrentTick(t)
                        \/ \E u \in Threads : pc[u] = "AddPlantLock"

\* The clock is parked, a reader is inside GetPlants or GetCurrentTick and
\* an AddPlant waits for that reader.
C18_Witness ==
    /\ clock = "waitResume"
    /\ \E t \in Threads : pc[t] = "AddPlantLock"
    /\ \E u \in Threads : pc[u] \in {"GetPlants", "GetCurrentTick"}

\* The Plant invariants NewPlant establishes: its validation passes and
\* health and growthStage are within [0,1].
ValidPlant(p) ==
    /\ p # NilPlant
    /\ NewPlantError(p.ID, p.Type, p.SectionID, p.SoilSaturation) = ""
    /\ InUnit(p.Health)
    /\ InUnit(p.GrowthStage)

\* C19: every member of the simulator's collection is a non-nil plant that
\* satisfies the Plant invariants, and the clock's OnTick loop never faults.
C19_OnlyValidPlantsAdmitted ==
    /\ \A i \in 1..Len(plants) : ValidPlant(plants[i])
    /\ clock # "panicked"

\* C20: no two plants in the simulator's collection have the same id (an
\* AddPlant of a plant whose id is already present leaves the collection
\* unchanged).
C20_PlantIdsUnique ==
    \A i, j \in 1..Len(plants) :
        (i # j /\ ValidPlant(plants[i]) /\ ValidPlant(plants[j]))
            => plants[i].ID # plants[j].ID

\* A test's OnTick call on a living plant that is alive after it.
TickSurvived == calls' = calls + 1 /\ plants[1].Alive /\ plants'[1].Alive

\* C30: in a tick after whose health update the plant is alive with health
\* below 0.3, growthStage is unchanged and soilSaturation is depleted (down
\* to 0 at most); the floor is tested on the health after the update, so a
\* plant whose health the update lifts to 0.3 or more grows (strictly, when
\* its base growth rate is positive and it is not full-grown) and one whose
\* health the update drops below 0.3 does not; health exactly 0.3 grows.
C30_GrowthHaltsBelowFloor ==
    [][TickSurvived =>
        LET p == plants[1]
            q == plants'[1]
        IN  /\ q.SoilSaturation = Max(p.SoilSaturation - p.Type.SaturationDepletion, 0)
            /\ q.Health < HEALTH_FLOOR => q.GrowthStage = p.GrowthStage
            /\ q.Health >= HEALTH_FLOOR =>
                  /\ q.GrowthStage >= p.GrowthStage
                  /\ (p.Type.BaseGrowthRate > 0 /\ p.GrowthStage < SCALE)
                        => q.GrowthStage > p.GrowthStage]_vars

\* One test has a plant that started below the floor, was lifted to it or
\* above by the health update of its first tick and grew in that tick.
C30_Witness ==
    /\ calls = 1
    /\ initial.Alive
    /\ initial.Health < HEALTH_FLOOR
    /\ plants[1].Alive
    /\ plants[1].Health >= HEALTH_FLOOR
    /\ plants[1].GrowthStage > initial.GrowthStage
    /\ plants[1].SoilSaturation < initial.SoilSaturation

\* The saturations of a PlantType are in order.
SaturationsOrdered(plantType) ==
    /\ plantType.MinSaturation <= plantType.OptimalSaturation
    /\ plantType.OptimalSaturation <= plantType.MaxSaturation

\* C21: NewPlant rejects every PlantType whose saturations do not satisfy
\* minSaturation <= optimalSaturation <= maxSaturation: it returns an error
\* and no plant.
C21_UnorderedSaturationsRejected ==
    (ctor.returned /\ ~SaturationsOrdered(ctor.plantType))
        => (ctor.err # "" /\ ctor.plant = NilPlant)

\* The arguments the claim C22 says NewPlant rejects.
OutOfBounds ==
    \/ ctor.id = ""
    \/ ctor.sectionID = ""
    \/ ~InUnit(ctor.initialSaturation)
    \/ ~InUnit(ctor.plantType.OptimalSaturation)
    \/ ~InUnit(ctor.plantType.MinSaturation)
    \/ ~InUnit(ctor.plantType.MaxSaturation)
    \/ ~InUnit(ctor.plantType.BaseGrowthRate)
    \/ ~InUnit(ctor.plantType.SaturationDepletion)
    \/ ~InUnit(ctor.plantType.HealthDegradationRate)
    \/ ~InUnit(ctor.plantType.HealthEnhancementRate)

\* NewPlant returned the plant the claim C22 describes.
ReturnedPlant ==
    /\ ctor.err = ""
    /\ ctor.plant # NilPlant
    /\ ctor.plant.ID = ctor.id
    /\ ctor.plant.Type = ctor.plantType
    /\ ctor.plant.SectionID = ctor.sectionID
    /\ ctor.plant.SoilSaturation = ctor.initialSaturation
    /\ ctor.plant.Health = SCALE
    /\ ctor.plant.GrowthStage = 0
    /\ ctor.plant.Alive

ReturnedError == ctor.err # "" /\ ctor.plant = NilPlant

\* C22 as claimed: NewPlant returns an error and no plant whenever the id
\* or sectionID is empty, the initial saturation is outside [0,1] or a
\* PlantType saturation or rate is outside [0,1]; otherwise it returns the
\* plant with the given id, type, section and saturation, health 1.0,
\* growthStage 0.0 and alive.
C22_RejectsOutOfBoundsOnly ==
    ctor.returned => IF OutOfBounds THEN ReturnedError ELSE ReturnedPlant

\* C22 (amended): NewPlant returns an error and no plant whenever the id
\* or sectionID is empty, the initial saturation is outside [0,1], the
\* PlantType has an empty name or one of its saturations or rates is
\* outside [0,1]; otherwise it returns the plant with the given id, type,
\* section and saturation, health 1.0, growthStage 0.0 and alive.
C22_RejectsOutOfBoundsAndNameless ==
    ctor.returned =>
        IF OutOfBounds \/ ctor.plantType.Name = "" THEN ReturnedError
        ELSE ReturnedPlant

\* NewPlant was given a named type whose only fault is a maximum
\* saturation above 1 and returned an error.
C22_Witness ==
    /\ ctor.returned
    /\ ctor.plantType.Name # ""
    /\ ~InUnit(ctor.plantType.MaxSaturation)
    /\ InUnit(ctor.plantType.OptimalSaturation)
    /\ InUnit(ctor.plantType.MinSaturation)
    /\ InUnit(ctor.plantType.BaseGrowthRate)
    /\ InUnit(ctor.plantType.SaturationDepletion)
    /\ InUnit(ctor.plantType.HealthDegradationRate)
    /\ InUnit(ctor.plantType.HealthEnhancementRate)
    /\ ctor.id # ""
    /\ ctor.sectionID # ""
    /\ InUnit(ctor.initialSaturation)
    /\ ReturnedError

\* This step is the return of a call of the sensor manager's operation op.
SensorCall(op) == sret'.n = sret.n + 1 /\ sret'.op = op

\* The plants of a section, as positions in the collection.
InSection(sectionID) == { i \in 1..Len(plants) : plants[i].SectionID = sectionID }

RECURSIVE SaturationSum(_)
SaturationSum(S) ==
    IF S = {} THEN 0
    ELSE LET i == CHOOSE j \in S : TRUE
         IN  plants[i].SoilSaturation + SaturationSum(S \ {i})

\* v is the mean soilSaturation of the plants at the positions S, to the
\* precision of the fixed-point numbers.
IsMean(v, S) ==
    /\ v * Cardinality(S) <= SaturationSum(S)
    /\ SaturationSum(S) < (v + 1) * Cardinality(S)

NoReading(r) == r.SensorID = "" /\ r.Value = 0

\* C23: GetReading on a registered sensor whose section holds at least one
\* plant returns no error and a reading with that sensor's id whose value
\* is the mean of the soilSaturation the plants of the section have at the
\* call, dead plants included and whatever ticks have been processed;
\* saturations 0.6, 0.8 and 0.7 give 0.7.
C23_ReadingIsLiveMean ==
    [][\A id \in SensorKeys :
        (/\ SensorCall("GetReading")
         /\ sret'.arg.ID = id
         /\ sensorsByID[id] # NilSensor
         /\ InSection(sensorsByID[id].SectionID) # {})
        => /\ sret'.err = ""
           /\ sret'.SensorID = id
           /\ IsMean(sret'.Value, InSection(sensorsByID[id].SectionID))
           /\ (plants = TestGetReadingPlants) => sret'.Value = 700]_vars

\* A reading was taken after a tick in which a plant of the section died,
\* and its value is the mean over the living and the dead plant.
C23_Witness ==
    /\ sret.op = "GetReading"
    /\ sret.err = ""
    /\ sret.tick >= 1
    /\ sret.tick = currentTick
    /\ clock = "select"
    /\ LET S == InSection(sensorsByID[sret.SensorID].SectionID)
       IN  /\ \E i \in S : ~plants[i].Alive
           /\ \E i \in S : plants[i].Alive
           /\ IsMean(sret.Value, S)

\* C24: GetReading on a registered sensor whose section holds no plant
\* returns the error "no plants in section" and no reading.
C24_EmptySectionIsAnError ==
    [][\A id \in SensorKeys :
        (/\ SensorCall("GetReading")
         /\ sret'.arg.ID = id
         /\ sensorsByID[id] # NilSensor
         /\ InSection(sensorsByID[id].SectionID) = {})
        => (sret'.err = "no plants in section" /\ NoReading(sret'))]_vars

\* A sensor registered for a section without plants was read, while the
\* simulation holds plants in another section.
C24_Witness ==
    /\ sret.op = "GetReading"
    /\ sret.err = "no plants in section"
    /\ sensorsByID[sret.arg.ID] # NilSensor
    /\ plants # <<>>

\* C25: GetReading with an id that is not registered returns the error
\* "no sensor found for the provided ID" and no reading, whatever plants
\* exist and whatever other sensors are registered.
C25_UnknownSensorIsAnError ==
    [][\A id \in SensorKeys :
        (/\ SensorCall("GetReading")
         /\ sret'.arg.ID = id
         /\ sensorsByID[id] = NilSensor)
        => (sret'.err = "no sensor found for the provided ID"
               /\ NoReading(sret'))]_vars

\* An unregistered id was read while another sensor is registered for a
\* section that holds plants.
C25_Witness ==
    /\ sret.op = "GetReading"
    /\ sret.err = "no sensor found for the provided ID"
    /\ \E id \in SensorKeys :
          /\ sensorsByID[id] # NilSensor
          /\ InSection(sensorsByID[id].SectionID) # {}

\* The argument of an AddSensor call the claim C26 says is rejected.
Rejectable(sensor) ==
    \/ sensor = NilSensor
    \/ sensor.ID = ""
    \/ sensor.SectionID = ""
    \/ sensorsByID[sensor.ID] # NilSensor

\* C26: AddSensor returns an error and leaves both indexes unchanged when
\* the sensor is nil, its id is empty, its sectionID is empty or its id is
\* already registered; the sensor registered under that id stays the one
\* found for it, with its type and section.
C26_RejectedAddSensorChangesNothing ==
    [][(SensorCall("AddSensor") /\ Rejectable(sret'.arg))
        => /\ sret'.err # ""
           /\ sensorsByID' = sensorsByID
           /\ sensorsBySection' = sensorsBySection]_vars

\* A sensor with a registered id and another type and section was refused
\* and the first one is still registered.
C26_Witness ==
    /\ sret.op = "AddSensor"
    /\ sret.err = "sensor with ID already exists"
    /\ sensorsByID[sret.arg.ID] # NilSensor
    /\ sensorsByID[sret.arg.ID].Type # sret.arg.Type
    /\ sensorsByID[sret.arg.ID].SectionID # sret.arg.SectionID

\* How often a sensor with this id occurs in the list of a section.
Occurrences(id, sectionID) ==
    Cardinality({ k \in 1..Len(sensorsBySection[sectionID]) :
                    sensorsBySection[sectionID][k].ID = id })

\* The index by id and the index by section hold the same sensors.
IndexesAgree ==
    /\ \A id \in SensorKeys :
          sensorsByID[id] # NilSensor =>
            /\ sensorsByID[id].ID = id
            /\ \A sec \in SectionKeys :
                  Occurrences(id, sec) =
                      IF sec = sensorsByID[id].SectionID THEN 1 ELSE 0
    /\ \A sec \in SectionKeys : \A k \in 1..Len(sensorsBySection[sec]) :
          LET sensor == sensorsBySection[sec][k]
          IN  sensor.ID \in SensorKeys /\ sensorsByID[sensor.ID] = sensor

\* C27: after any sequence of AddSensor calls the two indexes agree: a
\* sensor whose AddSensor returned nil is found by its id from then on, it
\* occurs exactly once in the list of its section and in no other list,
\* and no id is registered twice.
C27_SensorIndexesAgree ==
    /\ []IndexesAgree
    /\ [][/\ (SensorCall("AddSensor") /\ sret'.err = "")
              => sensorsByID'[sret'.arg.ID] = sret'.arg
           /\ \A id \in SensorKeys :
                sensorsByID[id] # NilSensor => sensorsByID'[id] = sensorsByID[id]]_vars

\* Two sensors are registered for one section and a third for another id
\* was refused as a duplicate.
C27_Witness ==
    /\ Len(sensorsBySection["section-A"]) = 2
    /\ sensorsByID["sensor-1"] # NilSensor
    /\ sensorsByID["sensor-2"] # NilSensor
    /\ sret.err = "sensor with ID already exists"

\* C28: the section-wide queries succeed on a section that holds plants
\* and fail on a section that holds none.
C28_SectionQueriesSucceed ==
    [][(SensorCall("GetSectionReadings") \/ SensorCall("GetAverageSaturation"))
        => (sret'.err = "" <=> InSection(sret'.arg.SectionID) # {})]_vars

\* The clock can take its next step.
ClockCanGoOn ==
    /\ (clock = "idle") => ENABLED Start
    /\ (clock = "select" /\ currentTick < MaxTick) => ENABLED ClockTick
    /\ (clock = "tickLoop") => ENABLED (ClockOnTick \/ ClockRUnlock)
    /\ (clock = "tickIncr") => ENABLED ClockIncr

\* C29: AddSensor and GetReading, failing or not, leave the plants, the
\* collection, currentTick, the clock's position and the paused flag as
\* they are, and after a failing call the clock can still take its next
\* step.
C29_SensorCallsLeaveTicksAlone ==
    /\ [][(SensorCall("AddSensor") \/ SensorCall("GetReading"))
            => UNCHANGED <<plants, currentTick, clock, tickIdx, isPaused, mu, loops>>]_vars
    /\ [](sret.err # "" => ClockCanGoOn)

\* A GetReading failed during a tick and the clock has completed that tick
\* and the next one since.
C29_Witness ==
    /\ sret.op = "GetReading"
    /\ sret.err # ""
    /\ plants # <<>>
    /\ sret.tick + 2 <= currentTick
    /\ loops = currentTick

\* The saturation is within 0.15 of the optimal one.
NearOptimal(p) ==
    p.SoilSaturation - p.Type.OptimalSaturation < 150
        /\ p.Type.OptimalSaturation - p.SoilSaturation < 150

\* baseGrowthRate/1.35, then times 1.25 near the optimal saturation.
SlowRate(p) ==
    LET slowed == (p.Type.BaseGrowthRate * 1000) \div 1350
    IN  IF NearOptimal(p) THEN (slowed * 1250) \div 1000 ELSE slowed

\* A tick of the test's plant after whose health update the plant is alive
\* with health in [0.3, 0.5) and whose type has a positive base growth rate.
SlowTick ==
    /\ TickSurvived
    /\ 300 <= plants'[1].Health
    /\ plants'[1].Health < 500
    /\ plants[1].Type.BaseGrowthRate > 0

\* C31 as claimed: with post-update health in [0.3, 0.5) and a positive
\* base growth rate the tick's growth increment is baseGrowthRate/1.35,
\* times 1.25 within 0.15 of the optimal saturation, and less than
\* baseGrowthRate.
C31_SlowGrowthIncrement ==
    [][SlowTick =>
        /\ plants'[1].GrowthStage - plants[1].GrowthStage = SlowRate(plants[1])
        /\ SlowRate(plants[1]) < plants[1].Type.BaseGrowthRate]_vars

\* C31 (amended): with post-update health in [0.3, 0.5) and a positive
\* base growth rate the tick adds baseGrowthRate/1.35, times 1.25 within
\* 0.15 of the optimal saturation, to growthStage and caps the sum at 1.0:
\* the increment is that rate while the cap is not reached and what is
\* left up to 1.0 otherwise, and is less than baseGrowthRate in every case.
C31_SlowGrowthIncrementCapped ==
    [][SlowTick =>
        LET inc == plants'[1].GrowthStage - plants[1].GrowthStage
        IN  /\ plants'[1].GrowthStage =
                  Min(plants[1].GrowthStage + SlowRate(plants[1]), SCALE)
            /\ plants'[1].GrowthStage < SCALE => inc = SlowRate(plants[1])
            /\ inc <= SlowRate(plants[1])
            /\ inc < plants[1].Type.BaseGrowthRate]_vars

\* A plant with health in [0.3, 0.5) near its optimal saturation grew by
\* its base rate over 1.35 times 1.25 in its first tick.
C31_Witness ==
    /\ calls = 1
    /\ initial.Alive
    /\ plants[1].Alive
    /\ 300 <= plants[1].Health
    /\ plants[1].Health < 500
    /\ initial.Type.BaseGrowthRate = 200
    /\ NearOptimal(initial)
    /\ plants[1].GrowthStage - initial.GrowthStage = 185

\* C32: with post-update health at 0.5 or more and the cap not reached the
\* tick's growth increment is baseGrowthRate at a distance of 0.15 or more
\* from the optimal saturation and baseGrowthRate*1.25, more than the base
\* rate when that is positive, at a distance below 0.15.
C32_NormalAndBonusIncrement ==
    [][(TickSurvived /\ plants'[1].Health >= 500 /\ plants'[1].GrowthStage < SCALE) =>
        LET inc == plants'[1].GrowthStage - plants[1].GrowthStage
            base == plants[1].Type.BaseGrowthRate
        IN  IF NearOptimal(plants[1])
            THEN inc = (base * 1250) \div 1000 /\ (base > 0 => inc > base)
            ELSE inc = base]_vars

\* A healthy plant exactly 0.15 away from its optimal saturation grew by
\* its base rate, without the bonus.
C32_Witness ==
    /\ calls = 1
    /\ initial.Alive
    /\ plants[1].Alive
    /\ plants[1].Health >= 500
    /\ initial.Type.OptimalSaturation - initial.SoilSaturation = 150
    /\ initial.Type.BaseGrowthRate > 0
    /\ plants[1].GrowthStage - initial.GrowthStage = initial.Type.BaseGrowthRate

\* The saturation is within the range of the type, ends included.
InSaturationRange(p) ==
    p.Type.MinSaturation <= p.SoilSaturation /\ p.SoilSaturation <= p.Type.MaxSaturation

C34_RangeEndsEnhance ==
    [][(/\ calls' = calls + 1
        /\ BuiltPlant.Alive
        /\ \/ BuiltPlant.SoilSaturation = BuiltPlant.Type.MinSaturation
           \/ BuiltPlant.SoilSaturation = BuiltPlant.Type.MaxSaturation)
        => plants'[1].Health =
              Min(BuiltPlant.Health + BuiltPlant.Type.HealthEnhancementRate, SCALE)]_vars

\* C38: a plant that NewPlant built and only OnTick has changed is alive
\* with health above 0 or dead with health 0.
C38_AliveAgreesWithHealth ==
    (ctor.returned /\ ctor.err = "") =>
        /\ BuiltPlant.Alive => BuiltPlant.Health > 0
        /\ ~BuiltPlant.Alive => BuiltPlant.Health = 0

\* A plant of a type with ordered saturations has dried out and died:
\* the clamp of degradeHealth left its health at 0.
C38_Witness ==
    /\ ctor.returned
    /\ ctor.err = ""
    /\ SaturationsOrdered(ctor.plantType)
    /\ calls = MaxCalls
    /\ ~BuiltPlant.Alive
    /\ BuiltPlant.Health = 0
    /\ 2 * ctor.plantType.HealthDegradationRate > SCALE

\* The type of a plant that dries out when it is not watered.
DriesOut(type) ==
    /\ type.SaturationDepletion > 0
    /\ type.MinSaturation > 0
    /\ type.HealthDegradationRate > 0

C35_IncrementExcludesReaders ==
    clock = "tickIncr" =>
        \A t \in Threads : pc[t] \notin {"GetCurrentTick", "GetPlants"}

\* C36: IsPaused() is true exactly when the clock goroutine is parked
\* waiting for a resume.
C36_PausedFlagAgreesWithClock == isPaused <=> (clock = "waitResume")

\* C37: a Pause called before Start or after the clock has returned does
\* not set the paused flag, and one called after the clock has returned
\* does not block on a send that nobody will ever receive.
C37_PauseOutsideCycleReturns ==
    [][\A t \in Threads :
        (PauseCalled(t) /\ clock \in {"idle", "done"}) =>
            /\ isPaused' = isPaused
            /\ clock = "done" => pc'[t] # "PauseSend"]_vars

\* C40: a step that changes a plant of the collection changes one plant,
\* the one the loop stands at, and of that plant at most health,
\* growthStage, soilSaturation and alive: its id, type, sectionID and
\* createdAt stay, and so does every field of every other plant, those of
\* the same type included.
C40_OnTickFrame ==
    [][(Len(plants') = Len(plants) /\ plants' # plants) =>
        /\ clock = "tickLoop"
        /\ tickIdx \in 1..Len(plants)
        /\ \A j \in 1..Len(plants) : j # tickIdx => plants'[j] = plants[j]
        /\ plants'[tickIdx].ID = plants[tickIdx].ID
        /\ plants'[tickIdx].Type = plants[tickIdx].Type
        /\ plants'[tickIdx].SectionID = plants[tickIdx].SectionID
        /\ plants'[tickIdx].CreatedAt = plants[tickIdx].CreatedAt]_vars

\* The loop has ticked the first of two plants of one type: the first has
\* changed and the second is as NewPlant built it.
C40_Witness ==
    /\ PartialTick
    /\ tickIdx = 2
    /\ Len(plants) >= 2
    /\ plants[1].Type = plants[2].Type
    /\ plants[1] # getTestPlants[1]
    /\ plants[1].ID = getTestPlants[1].ID
    /\ plants[2] = getTestPlants[2]

====
